---- MODULE Spec2Model ----
(***************************************************************************)
(* Model of graph/src/env/mappings.rs: the environment snapshot is loaded  *)
(* into the raw struct InnerMappingHandlers (one field per variable, each  *)
(* with its parser and default), the raw struct is converted into          *)
(* EnvVarsMapping by From<InnerMappingHandlers>, and EnvVarsMapping is     *)
(* rendered by its Debug implementation.                                   *)
(*                                                                         *)
(* Texts are sequences of one-character strings.  usize and u64 values are *)
(* 64 bits wide, kept as NumLimbs little-endian limbs of base LimbBase, so *)
(* that parsing and multiplication overflow exactly where the machine      *)
(* integers do.                                                            *)
(***************************************************************************)
EXTENDS Integers, Sequences, FiniteSets, TLC

\* ------------------------------------------------------------------------
\* Option<T>
None == <<>>
Some(x) == <<x>>

\* ------------------------------------------------------------------------
\* 64-bit unsigned integers (usize on a 64-bit target, u64)
LimbBase == 65536
NumLimbs == 4

\* The limbs of a small natural number (below 2^31).
U64(n) == <<n % LimbBase, (n \div LimbBase) % LimbBase, 0, 0>>

\* x * k + carry over limbs, one limb longer than x: the last limb is the
\* part that does not fit in the width of x.
RECURSIVE MulLimbs(_, _, _)
MulLimbs(x, k, carry) ==
    IF x = <<>> THEN <<carry>>
    ELSE LET p == Head(x) * k + carry
         IN  <<p % LimbBase>> \o MulLimbs(Tail(x), k, p \div LimbBase)

\* `a * k` on usize with overflow checks off: the product modulo 2^64.
wrapping_mul(a, k) == SubSeq(MulLimbs(a, k, 0), 1, NumLimbs)

\* Whether `a * k` on usize exceeds the type's range.
mul_overflows(a, k) == MulLimbs(a, k, 0)[NumLimbs + 1] # 0

\* ------------------------------------------------------------------------
\* Results
Ok(v) == [ok |-> TRUE, val |-> v]
Err == [ok |-> FALSE, val |-> None]

\* ------------------------------------------------------------------------
\* Parsers (FromStr)
Digits == <<"0", "1", "2", "3", "4", "5", "6", "7", "8", "9">>
IsDigit(c) == \E i \in 1..10 : Digits[i] = c
DigitVal(c) == (CHOOSE i \in 1..10 : Digits[i] = c) - 1

\* The digit loop of the integer parser: every character is a decimal digit
\* and acc * 10 + digit is checked against the range at each step.
RECURSIVE ParseDigits(_, _)
ParseDigits(text, acc) ==
    IF text = <<>> THEN Ok(acc)
    ELSE IF ~IsDigit(Head(text)) THEN Err
    ELSE LET m == MulLimbs(acc, 10, DigitVal(Head(text)))
         IN  IF m[NumLimbs + 1] # 0 THEN Err
             ELSE ParseDigits(Tail(text), SubSeq(m, 1, NumLimbs))

\* usize::from_str / u64::from_str: an optional leading "+", then at least
\* one digit; no sign for an unsigned type, no separator, no whitespace.
ParseUsize(text) ==
    IF text = <<>> THEN Err
    ELSE IF Head(text) = "+"
         THEN (IF Tail(text) = <<>> THEN Err ELSE ParseDigits(Tail(text), U64(0)))
    ELSE ParseDigits(text, U64(0))

\* Version::from_str: exactly three dot-separated numeric components, each a
\* decimal number in the u64 range without a leading zero.  (Pre-release and
\* build suffixes do not occur in the texts considered.)
RECURSIVE SplitDots(_)
SplitDots(text) ==
    IF \A i \in 1..Len(text) : text[i] # "."
    THEN <<text>>
    ELSE LET i == CHOOSE j \in 1..Len(text) :
                    text[j] = "." /\ \A k \in 1..(j - 1) : text[k] # "."
         IN  <<SubSeq(text, 1, i - 1)>> \o SplitDots(SubSeq(text, i + 1, Len(text)))

NumericIdent(t) ==
    IF t = <<>> \/ (Len(t) > 1 /\ Head(t) = "0") THEN Err ELSE ParseDigits(t, U64(0))

ParseVersion(text) ==
    LET parts == SplitDots(text)
    IN  IF Len(parts) # 3 THEN Err
        ELSE LET c == [i \in 1..3 |-> NumericIdent(parts[i])]
             IN  IF \A i \in 1..3 : c[i].ok
                 THEN Ok(<<c[1].val, c[2].val, c[3].val>>)
                 ELSE Err

\* EnvVarBoolean::from_str: a closed vocabulary of literal tokens.  (Tokens
\* in upper case do not occur in the texts considered.)
ParseEnvVarBoolean(text) ==
    IF text \in {<<"t", "r", "u", "e">>, <<"1">>} THEN Ok(TRUE)
    ELSE IF text \in {<<"f", "a", "l", "s", "e">>, <<"0">>} THEN Ok(FALSE)
    ELSE Err

\* The field types of InnerMappingHandlers.
TyUsize == [kind |-> "usize"]
TyU64 == [kind |-> "u64"]
TyVersion == [kind |-> "Version"]
TyEnvVarBoolean == [kind |-> "EnvVarBoolean"]
TyNoUnderscores(inner) == [kind |-> "NoUnderscores", inner |-> inner]
TyWithDefaultUsize(inner, n) == [kind |-> "WithDefaultUsize", inner |-> inner, N |-> n]

\* NoUnderscores<T>::from_str: T's parser, except that a text holding the
\* grouping separator is refused.
NoUnderscoresFromStr(text, innerResult) ==
    IF \E i \in 1..Len(text) : text[i] = "_" THEN Err ELSE innerResult

\* WithDefaultUsize<T, N>::from_str: the constant N for the empty text,
\* T's parser for any other text.
WithDefaultUsizeFromStr(text, n, innerResult) ==
    IF text = <<>> THEN Ok(U64(n)) ELSE innerResult

\* T::from_str for a field type T.
RECURSIVE FromStr(_, _)
FromStr(ty, text) ==
    CASE ty.kind = "usize" -> ParseUsize(text)
      [] ty.kind = "u64" -> ParseUsize(text)
      [] ty.kind = "Version" -> ParseVersion(text)
      [] ty.kind = "EnvVarBoolean" -> ParseEnvVarBoolean(text)
      [] ty.kind = "NoUnderscores" ->
            NoUnderscoresFromStr(text, FromStr(ty.inner, text))
      [] ty.kind = "WithDefaultUsize" ->
            WithDefaultUsizeFromStr(text, ty.N, FromStr(ty.inner, text))

\* ------------------------------------------------------------------------
\* InnerMappingHandlers: one declaration per field, in the struct's order:
\* the variable it is read from, its default text (if any), its type, and
\* whether the field is an Option.
Field(from, default, ty, optional) ==
    [from |-> from, default |-> default, ty |-> ty, optional |-> optional]

entity_cache_size_in_kb ==
    Field("GRAPH_ENTITY_CACHE_SIZE", Some(<<"1", "0", "0", "0", "0">>), TyUsize, FALSE)
\* The declaration with the default the field's documentation names.
max_api_version_default_0_0_6 ==
    Field("GRAPH_MAX_API_VERSION", Some(<<"0", ".", "0", ".", "6">>), TyVersion, FALSE)
max_api_version ==
    Field("GRAPH_MAX_API_VERSION", Some(<<"0", ".", "0", ".", "7">>), TyVersion, FALSE)
\* The declaration with a default text, as the other timeout has.
mapping_handler_timeout_in_secs_default_30 ==
    Field("GRAPH_MAPPING_HANDLER_TIMEOUT", Some(<<"3", "0">>), TyU64, TRUE)
mapping_handler_timeout_in_secs ==
    Field("GRAPH_MAPPING_HANDLER_TIMEOUT", None, TyU64, TRUE)
\* The declaration with 512 decimal kilobytes for 512KiB.
runtime_max_stack_size_512_000 ==
    Field("GRAPH_RUNTIME_MAX_STACK_SIZE", Some(<<>>),
          TyWithDefaultUsize(TyNoUnderscores(TyUsize), 512 * 1000), FALSE)
runtime_max_stack_size ==
    Field("GRAPH_RUNTIME_MAX_STACK_SIZE", Some(<<>>),
          TyWithDefaultUsize(TyNoUnderscores(TyUsize), 512 * 1024), FALSE)
query_cache_blocks ==
    Field("GRAPH_QUERY_CACHE_BLOCKS", Some(<<"2">>), TyUsize, FALSE)
query_cache_max_mem_in_mb ==
    Field("GRAPH_QUERY_CACHE_MAX_MEM", Some(<<"1", "0", "0", "0">>),
          TyNoUnderscores(TyUsize), FALSE)
query_cache_stale_period ==
    Field("GRAPH_QUERY_CACHE_STALE_PERIOD", Some(<<"1", "0", "0">>), TyU64, FALSE)
max_ipfs_cache_file_size ==
    Field("GRAPH_MAX_IPFS_CACHE_FILE_SIZE", Some(<<>>),
          TyWithDefaultUsize(TyUsize, 1024 * 1024), FALSE)
max_ipfs_cache_size ==
    Field("GRAPH_MAX_IPFS_CACHE_SIZE", Some(<<"5", "0">>), TyU64, FALSE)
ipfs_timeout_in_secs ==
    Field("GRAPH_IPFS_TIMEOUT", Some(<<"3", "0">>), TyU64, FALSE)
max_ipfs_map_file_size ==
    Field("GRAPH_MAX_IPFS_MAP_FILE_SIZE", Some(<<>>),
          TyWithDefaultUsize(TyUsize, 256 * 1024 * 1024), FALSE)
max_ipfs_file_bytes ==
    Field("GRAPH_MAX_IPFS_FILE_BYTES", None, TyUsize, TRUE)
allow_non_deterministic_ipfs ==
    Field("GRAPH_ALLOW_NON_DETERMINISTIC_IPFS",
          Some(<<"f", "a", "l", "s", "e">>), TyEnvVarBoolean, FALSE)

InnerMappingHandlers ==
    <<entity_cache_size_in_kb, max_api_version, mapping_handler_timeout_in_secs,
      runtime_max_stack_size, query_cache_blocks, query_cache_max_mem_in_mb,
      query_cache_stale_period, max_ipfs_cache_file_size, max_ipfs_cache_size,
      ipfs_timeout_in_secs, max_ipfs_map_file_size, max_ipfs_file_bytes,
      allow_non_deterministic_ipfs>>

\* ------------------------------------------------------------------------
\* The environment snapshots considered


\* 2^64 - 1, 2^64, and the least value whose product with 1000 passes 2^64.
TextMax ==
    <<"1", "8", "4", "4", "6", "7", "4", "4", "0", "7",
      "3", "7", "0", "9", "5", "5", "1", "6", "1", "5">>
TextMaxPlus1 ==
    <<"1", "8", "4", "4", "6", "7", "4", "4", "0", "7",
      "3", "7", "0", "9", "5", "5", "1", "6", "1", "6">>
TextOverflowsTimes1000 ==
    <<"1", "8", "4", "4", "6", "7", "4", "4", "0", "7",
      "3", "7", "0", "9", "5", "5", "2">>

EnvTexts ==
    {<<>>, <<"5">>, <<"5", "_", "0">>, <<"2", "0", "0", "0", "0">>,
     TextMax, TextMaxPlus1, TextOverflowsTimes1000,
     <<"t", "r", "u", "e">>, <<"0", ".", "0", ".", "6">>}

\* ------------------------------------------------------------------------
\* The loader derived for InnerMappingHandlers (Envconfig)
InvalidFormat(name, text) == [kind |-> "InvalidFormat", name |-> name, text |-> Some(text)]
MissingVariable(name) == [kind |-> "MissingVariable", name |-> name, text |-> None]

FieldOk(v) == [ok |-> TRUE, val |-> v, err |-> None]
FieldErr(e) == [ok |-> FALSE, val |-> None, err |-> Some(e)]

\* T::from_str tabulated once for every field type and every text a field
\* can be given: a text of the snapshot or a declared default.
FieldTexts ==
    EnvTexts \cup {InnerMappingHandlers[i].default[1] :
                      i \in {j \in 1..Len(InnerMappingHandlers) :
                                InnerMappingHandlers[j].default # None}}
FieldTypes == {InnerMappingHandlers[i].ty : i \in 1..Len(InnerMappingHandlers)}
FromStrTable == [ty \in FieldTypes |-> [t \in FieldTexts |-> FromStr(ty, t)]]

\* A loader that falls back to the default (or None) when the text of a
\* present variable does not parse.
load_present_or_default(f, text) ==
    LET r == FromStrTable[f.ty][text]
    IN  IF r.ok THEN FieldOk(IF f.optional THEN Some(r.val) ELSE r.val)
        ELSE IF f.default # None THEN FieldOk(FromStrTable[f.ty][f.default[1]].val)
        ELSE FieldOk(None)

\* A variable that is present: its text goes through the field's parser.
load_present(f, text) ==
    LET r == FromStrTable[f.ty][text]
    IN  IF r.ok THEN FieldOk(IF f.optional THEN Some(r.val) ELSE r.val)
        ELSE FieldErr(InvalidFormat(f.from, text))

\* One field of the struct from the snapshot e: the variable's text if it is
\* present, else the declared default text, else None for an Option field,
\* else the variable is missing.
load_field(f, e) ==
    IF e[f.from] # None THEN load_present(f, e[f.from][1])
    ELSE IF f.default # None THEN load_present(f, f.default[1])
    ELSE IF f.optional THEN FieldOk(None)
    ELSE FieldErr(MissingVariable(f.from))

\* InnerMappingHandlers::init_from_env: the fields in declaration order; the
\* first failure is returned and no struct is built.
init_from_env(e) ==
    LET r == [i \in 1..Len(InnerMappingHandlers) |->
                 load_field(InnerMappingHandlers[i], e)]
        failed == {i \in 1..Len(InnerMappingHandlers) : ~r[i].ok}
    IN  IF failed # {}
        THEN [ok |-> FALSE, val |-> None,
              err |-> r[CHOOSE i \in failed : \A j \in failed : i <= j].err]
        ELSE [ok |-> TRUE, err |-> None,
              val |-> Some([entity_cache_size_in_kb |-> r[1].val,
                            max_api_version |-> r[2].val,
                            mapping_handler_timeout_in_secs |-> r[3].val,
                            runtime_max_stack_size |-> r[4].val,
                            query_cache_blocks |-> r[5].val,
                            query_cache_max_mem_in_mb |-> r[6].val,
                            query_cache_stale_period |-> r[7].val,
                            max_ipfs_cache_file_size |-> r[8].val,
                            max_ipfs_cache_size |-> r[9].val,
                            ipfs_timeout_in_secs |-> r[10].val,
                            max_ipfs_map_file_size |-> r[11].val,
                            max_ipfs_file_bytes |-> r[12].val,
                            allow_non_deterministic_ipfs |-> r[13].val])]

\* ------------------------------------------------------------------------
\* EnvVarsMapping

\* Duration::from_secs
Duration_from_secs(secs) == [secs |-> secs, nanos |-> 0]

\* From<InnerMappingHandlers> for EnvVarsMapping, with the multiplications
\* as the machine performs them when overflow checks are off.
EnvVarsMapping_from(x) ==
    [entity_cache_size |-> wrapping_mul(x.entity_cache_size_in_kb, 1000),
     max_api_version |-> x.max_api_version,
     timeout |-> IF x.mapping_handler_timeout_in_secs = None THEN None
                 ELSE Some(Duration_from_secs(x.mapping_handler_timeout_in_secs[1])),
     max_stack_size |-> x.runtime_max_stack_size,
     query_cache_blocks |-> x.query_cache_blocks,
     query_cache_max_mem |->
         wrapping_mul(wrapping_mul(x.query_cache_max_mem_in_mb, 1000), 1000),
     query_cache_stale_period |-> x.query_cache_stale_period,
     max_ipfs_cache_file_size |-> x.max_ipfs_cache_file_size,
     max_ipfs_cache_size |-> x.max_ipfs_cache_size,
     ipfs_timeout |-> Duration_from_secs(x.ipfs_timeout_in_secs),
     max_ipfs_map_file_size |-> x.max_ipfs_map_file_size,
     max_ipfs_file_bytes |-> x.max_ipfs_file_bytes,
     allow_non_deterministic_ipfs |-> x.allow_non_deterministic_ipfs]

\* Whether one of the multiplications of the conversion leaves the range of
\* usize: `* 1000` at the entity cache size, `* 1000 * 1000` (left to right)
\* at the query cache memory.
from_overflows(x) ==
    \/ mul_overflows(x.entity_cache_size_in_kb, 1000)
    \/ mul_overflows(x.query_cache_max_mem_in_mb, 1000)
    \/ mul_overflows(wrapping_mul(x.query_cache_max_mem_in_mb, 1000), 1000)

\* A rendering that shows a field, as a derived Debug would.
fmt_shows_field(self) ==
    IF self.timeout = None THEN "EnvVarsMapping { timeout: None }"
    ELSE "EnvVarsMapping { timeout: Some }"

\* impl fmt::Debug for EnvVarsMapping
fmt(self) == "env vars"

\* ------------------------------------------------------------------------
\* The environment snapshots considered

\* Every variable the struct reads, and the name the documentation of
\* max_ipfs_map_file_size gives.
EnvNames ==
    {InnerMappingHandlers[i].from : i \in 1..Len(InnerMappingHandlers)}
        \cup {"GRAPH_MAX_IPFS_MAP_FILE_SIZE_LIMIT"}

\* At most this many variables are present in a snapshot.
MaxPresent == 2

\* The snapshot in which the variables of S hold the texts f gives them and
\* every other variable is absent.
Snapshot(S, f) == [n \in EnvNames |-> IF n \in S THEN Some(f[n]) ELSE None]

\* ------------------------------------------------------------------------
\* The process: load the snapshot, convert, render.
VARIABLES env, overflow_checks, pc, raw, err, derived, dbg

vars == <<env, overflow_checks, pc, raw, err, derived, dbg>>

Init ==
    /\ \E S \in {T \in SUBSET EnvNames : Cardinality(T) <= MaxPresent} :
         \E f \in [S -> EnvTexts] :
            env = Snapshot(S, f)
    /\ overflow_checks \in BOOLEAN
    /\ pc = "start"
    /\ raw = None
    /\ err = None
    /\ derived = None
    /\ dbg = None

\* InnerMappingHandlers::init_from_env() on the snapshot.
Load ==
    /\ pc = "start"
    /\ LET r == init_from_env(env)
       IN  /\ raw' = r.val
           /\ err' = r.err
           /\ pc' = IF r.ok THEN "loaded" ELSE "failed"
    /\ UNCHANGED <<env, overflow_checks, derived, dbg>>

\* EnvVarsMapping::from(raw).  A build with overflow checks panics at a
\* multiplication that leaves the range; a build without them wraps.
Derive ==
    /\ pc = "loaded"
    /\ IF overflow_checks /\ from_overflows(raw[1])
       THEN pc' = "panicked" /\ derived' = None
       ELSE pc' = "derived" /\ derived' = Some(EnvVarsMapping_from(raw[1]))
    /\ UNCHANGED <<env, overflow_checks, raw, err, dbg>>

\* format!("{:?}", derived)
Fmt ==
    /\ pc = "derived"
    /\ dbg = None
    /\ dbg' = Some(fmt(derived[1]))
    /\ UNCHANGED <<env, overflow_checks, pc, raw, err, derived>>

Next == Load \/ Derive \/ Fmt

Spec == Init /\ [][Next]_vars

\* ------------------------------------------------------------------------
\* Properties

\* The raw and the derived struct, where they exist.
R == raw[1]
D == derived[1]

\* The product x * k over the naturals (no truncation), and a 64-bit value
\* as a natural of n more limbs.
ExactProduct(x, k) == MulLimbs(x, k, 0)
Widen(x, n) == x \o [i \in 1..n |-> 0]

\* The variables that are present in the snapshot.
Present == {n \in EnvNames : env[n] # None}

\* The plain integer parser and the separator-restricted integer parser on
\* every text of a snapshot.
PlainInteger == [t \in EnvTexts |-> ParseUsize(t)]
SeparatorRestrictedInteger == [t \in EnvTexts |-> FromStr(TyNoUnderscores(TyUsize), t)]

Text20000 == <<"2", "0", "0", "0", "0">>
Text5 == <<"5">>
Text5_0 == <<"5", "_", "0">>
Version(major, minor, patch) == <<U64(major), U64(minor), U64(patch)>>

\* C1: the conversion's unit math is exact for every raw value: the entity
\* cache size is the raw kilobytes times 1000, the query cache memory the
\* raw megabytes times 1,000,000, the two timeouts are durations of exactly
\* the raw seconds; entity cache size "20000" derives to 20,000,000.
C1_UnitConversionExact ==
    pc = "derived" =>
        /\ Widen(D.entity_cache_size, 1) = ExactProduct(R.entity_cache_size_in_kb, 1000)
        /\ Widen(D.query_cache_max_mem, 2) =
               ExactProduct(ExactProduct(R.query_cache_max_mem_in_mb, 1000), 1000)
        /\ D.ipfs_timeout = [secs |-> R.ipfs_timeout_in_secs, nanos |-> 0]
        /\ R.mapping_handler_timeout_in_secs # None =>
               D.timeout = Some([secs |-> R.mapping_handler_timeout_in_secs[1],
                                 nanos |-> 0])
        /\ env["GRAPH_ENTITY_CACHE_SIZE"] = Some(Text20000) =>
               D.entity_cache_size = U64(20000000)

\* C2: the conversion is total: for every raw struct the loader produces it
\* returns a derived struct, it never panics, and neither multiplication
\* leaves the range of usize.
C2_TransformTotal ==
    /\ pc # "panicked"
    /\ pc = "derived" =>
           /\ ExactProduct(R.entity_cache_size_in_kb, 1000)[NumLimbs + 1] = 0
           /\ LET p == ExactProduct(ExactProduct(R.query_cache_max_mem_in_mb, 1000), 1000)
              IN  p[NumLimbs + 1] = 0 /\ p[NumLimbs + 2] = 0

C4_DebugRedacted == dbg # None => dbg = Some("env vars")

\* An instance with an optional field set and an extreme value has been
\* rendered.
C4_Witness ==
    /\ dbg # None
    /\ D.timeout # None
    /\ D.max_ipfs_cache_size = <<65535, 65535, 65535, 65535>>

\* C5: a text holding the separator "_" in GRAPH_QUERY_CACHE_MAX_MEM or in
\* GRAPH_RUNTIME_MAX_STACK_SIZE makes the load fail with InvalidFormat (of
\* that variable, when no other variable is present), even when the text
\* without the separator is an integer; no raw or derived struct exists.
C5_SeparatorRejected ==
    \A n \in {"GRAPH_QUERY_CACHE_MAX_MEM", "GRAPH_RUNTIME_MAX_STACK_SIZE"} :
        (/\ pc # "start"
         /\ env[n] # None
         /\ \E i \in 1..Len(env[n][1]) : env[n][1][i] = "_")
        => /\ pc = "failed"
           /\ raw = None
           /\ derived = None
           /\ err # None
           /\ err[1].kind = "InvalidFormat"
           /\ Present = {n} => err = Some(InvalidFormat(n, env[n][1]))

\* Both separator-restricted variables hold "5_0" and the load has run.
C5_Witness ==
    /\ pc = "failed"
    /\ env["GRAPH_QUERY_CACHE_MAX_MEM"] = Some(Text5_0)
    /\ env["GRAPH_RUNTIME_MAX_STACK_SIZE"] = Some(Text5_0)

C7_PipelineAtomic ==
    /\ pc \in {"start", "loaded", "derived", "failed"}
    /\ pc = "failed" => raw = None /\ derived = None /\ err # None
    /\ pc = "loaded" => raw # None /\ err = None /\ derived = None
    /\ pc = "derived" => raw # None /\ err = None /\ derived # None
    /\ (\E i \in 1..Len(InnerMappingHandlers) :
           LET f == InnerMappingHandlers[i]
           IN  env[f.from] # None /\ ~FromStr(f.ty, env[f.from][1]).ok)
       => pc \in {"start", "failed"}

\* C8: for GRAPH_MAPPING_HANDLER_TIMEOUT and GRAPH_MAX_IPFS_FILE_BYTES an
\* absent variable is no failure and derives to None, a valid integer v to
\* Some(v seconds) and Some(v), and a malformed text fails the load as the
\* plain integer parser does.
C8_OptionalFields ==
    LET holds(n, rawval, derivedval, wrap(_)) ==
            IF env[n] = None
            THEN /\ raw # None => rawval = None
                 /\ pc = "derived" => derivedval = None
                 /\ err # None => err[1].name # n
            ELSE LET r == PlainInteger[env[n][1]]
                 IN  /\ (raw # None => r.ok /\ rawval = Some(r.val))
                     /\ (pc = "derived" => derivedval = Some(wrap(r.val)))
                     /\ (~r.ok /\ pc # "start" =>
                            pc = "failed" /\ err # None /\ err[1].kind = "InvalidFormat")
                     /\ (~r.ok /\ pc # "start" /\ Present = {n} =>
                            err = Some(InvalidFormat(n, env[n][1])))
        seconds(v) == [secs |-> v, nanos |-> 0]
        same(v) == v
    IN  /\ holds("GRAPH_MAPPING_HANDLER_TIMEOUT",
                 R.mapping_handler_timeout_in_secs, D.timeout, seconds)
        /\ holds("GRAPH_MAX_IPFS_FILE_BYTES",
                 R.max_ipfs_file_bytes, D.max_ipfs_file_bytes, same)
        /\ err # None => err[1].kind # "MissingVariable"

\* The handler timeout is set to "5", the IPFS file limit is absent, and
\* the struct has been derived.
C8_Witness ==
    /\ pc = "derived"
    /\ env["GRAPH_MAPPING_HANDLER_TIMEOUT"] = Some(Text5)
    /\ env["GRAPH_MAX_IPFS_FILE_BYTES"] = None
    /\ D.timeout = Some([secs |-> U64(5), nanos |-> 0])
    /\ D.max_ipfs_file_bytes = None

\* C9: with GRAPH_MAX_API_VERSION absent the derived max_api_version is
\* 0.0.6, as the field's documentation says.
C9_DocumentedDefaultApiVersion ==
    (pc = "derived" /\ env["GRAPH_MAX_API_VERSION"] = None)
        => D.max_api_version = Version(0, 0, 6)

\* C10: max_ipfs_map_file_size is set by GRAPH_MAX_IPFS_MAP_FILE_SIZE_LIMIT,
\* as the field's documentation says: with that variable alone set to a
\* valid integer v the field is v, and the field is the 256MiB default only
\* when that variable is absent or empty.
C10_DocumentedVariableName ==
    LET n == "GRAPH_MAX_IPFS_MAP_FILE_SIZE_LIMIT"
    IN  pc = "derived" =>
            /\ (Present = {n} /\ ParseUsize(env[n][1]).ok)
                   => D.max_ipfs_map_file_size = ParseUsize(env[n][1]).val
            /\ D.max_ipfs_map_file_size = U64(256 * 1024 * 1024)
                   => env[n] \in {None, Some(<<>>)}

====
